---- MODULE Spec2Model ----
(***************************************************************************)
(* Uptime reconstruction, services API and incidents API of the            *)
(* status-page backend.                                                    *)
(*                                                                         *)
(*   calculate_service_uptime_for_period   app/api/v1/endpoints/metrics.py *)
(*   get_uptime_metrics                    app/api/v1/endpoints/metrics.py *)
(*   calculate_uptime_percentage           app/api/v1/endpoints/status.py  *)
(*   calculate_overall_status              app/api/v1/endpoints/status.py  *)
(*   create_service, get_service,                                          *)
(*   update_service, update_service_status,                                *)
(*   delete_service,                                                       *)
(*   get_service_status_history            app/api/v1/endpoints/services.py*)
(*   create_incident, update_incident,                                     *)
(*   add_incident_update, delete_incident  app/api/v1/endpoints/incidents.py*)
(*                                                                         *)
(* Instants are integer ticks; a duration (timedelta.total_seconds()) is   *)
(* the difference of two instants.  A percentage is a fixed-point number:  *)
(* Quantum units make 0.01 percent, so 100.0 is 100 * 100 * Quantum.       *)
(***************************************************************************)
EXTENDS Integers, Sequences, FiniteSets, TLC

\* Instants range over 0..MaxTime.
MaxTime == 3
\* Rows of service_status_history one service has at most.
MaxEvents == 2

Times == 0..MaxTime

-----------------------------------------------------------------------------
(* models/service.py *)

OPERATIONAL == "operational"
DEGRADED_PERFORMANCE == "degraded_performance"
PARTIAL_OUTAGE == "partial_outage"
MAJOR_OUTAGE == "major_outage"
MAINTENANCE == "maintenance"

ServiceStatus ==
    {OPERATIONAL, DEGRADED_PERFORMANCE, PARTIAL_OUTAGE, MAJOR_OUTAGE, MAINTENANCE}

\* previous_status is a nullable column: NoStatus is NULL.
NoStatus == "none"

\* A row of services, as far as the uptime code reads it.
Service == [status : ServiceStatus, last_status_change : Times, is_active : BOOLEAN]

\* A row of service_status_history of one service.
ServiceStatusHistory ==
    [created_at : Times, status : ServiceStatus,
     previous_status : ServiceStatus \cup {NoStatus}]

Min(a, b) == IF a <= b THEN a ELSE b
Max(a, b) == IF a >= b THEN a ELSE b

-----------------------------------------------------------------------------
(* Percentages *)

\* Fixed-point units in 0.01 percent.
Quantum == 10 ^ 2

\* The factor of "(operational_duration / total_duration) * 100".
Hundred == 100

\* x percent, x an integer.
Pct(x) == x * Hundred * Quantum

\* (operational / total) * 100; total is not 0 where the code divides.
Ratio(operational, total) == (operational * Hundred * Hundred * Quantum) \div total

-----------------------------------------------------------------------------
(* calculate_service_uptime_for_period *)

\* The filter of the query: created_at >= start_time and created_at <= end_time.
InWindowDropUpper(entry, start, end) == entry.created_at >= start
InWindow(entry, start, end) ==
    entry.created_at >= start /\ entry.created_at <= end

\* The orders in which ORDER BY created_at may return rows: every arrangement
\* of rows that ascends in created_at (rows with equal created_at in any order).
OrderByCreatedAt(rows) ==
    LET n == Len(rows)
        perms == {p \in [1..n -> 1..n] : \A i, j \in 1..n : i # j => p[i] # p[j]}
        sorted == {p \in perms :
                     \A i \in 1..n-1 : rows[p[i]].created_at <= rows[p[i+1]].created_at}
    IN {[i \in 1..n |-> rows[p[i]]] : p \in sorted}

\* db.query(ServiceStatusHistory).filter(...).order_by(created_at).all()
QueryHistory(table, start, end) ==
    OrderByCreatedAt(SelectSeq(table, LAMBDA entry : InWindow(entry, start, end)))

\* "if not service.is_active: return 100.0"
NeverInactive(svc) == FALSE
Inactive(svc) == ~svc.is_active

\* total_duration = (end_time - start_time).total_seconds()
TotalDuration(start, end) == end - start

\* "if total_duration <= 0: return 100.0"
DegenerateOnlyZero(total) == total = 0
Degenerate(total) == total <= 0

\* No history, last_status_change <= start_time: the current status held
\* for the whole period.
StableAlwaysUp(svc, total) == total
StableDuration(svc, total) ==
    IF svc.status = OPERATIONAL THEN total ELSE 0

\* No history, start_time < last_status_change <= end_time.
ChangedWithinIgnoreBefore(svc, start, end) ==
    IF svc.status = OPERATIONAL THEN Max(0, end - svc.last_status_change) ELSE 0
ChangedWithinDuration(svc, start, end) ==
    LET time_before_change == svc.last_status_change - start
        time_after_change == end - svc.last_status_change
    IN Max(0, time_before_change)
         + (IF svc.status = OPERATIONAL THEN Max(0, time_after_change) ELSE 0)

\* No history, last_status_change > end_time.
ChangedAfterByStatus(svc, total) == IF svc.status = OPERATIONAL THEN total ELSE 0
ChangedAfterDuration(svc, total) == total

\* The branch "if not history".
NoHistoryDuration(svc, start, end) ==
    LET total == TotalDuration(start, end)
    IN IF svc.last_status_change <= start
         THEN StableDuration(svc, total)
         ELSE IF svc.last_status_change <= end
                THEN ChangedWithinDuration(svc, start, end)
                ELSE ChangedAfterDuration(svc, total)

\* current_status before the loop.
InitialStatusFromLog(svc, hist, start) ==
    IF hist[1].previous_status # NoStatus THEN hist[1].previous_status ELSE OPERATIONAL
InitialStatus(svc, hist, start) ==
    IF svc.last_status_change <= start THEN svc.status ELSE OPERATIONAL

\* One pass of "for entry in history" on the loop's variables.
LoopBodyOwnStatus(entry, loc) ==
    [current_status |-> entry.status,
     last_change |-> entry.created_at,
     operational_duration |->
        loc.operational_duration
          + (IF entry.status = OPERATIONAL
               THEN entry.created_at - loc.last_change ELSE 0)]
LoopBody(entry, loc) ==
    [current_status |-> entry.status,
     last_change |-> entry.created_at,
     operational_duration |->
        loc.operational_duration
          + (IF loc.current_status = OPERATIONAL
               THEN entry.created_at - loc.last_change ELSE 0)]

RECURSIVE Loop(_, _, _)
Loop(hist, i, loc) ==
    IF i > Len(hist) THEN loc ELSE Loop(hist, i + 1, LoopBody(hist[i], loc))

\* "Add remaining time in current status".
Remaining(loc, end) ==
    loc.operational_duration
      + (IF loc.current_status = OPERATIONAL THEN end - loc.last_change ELSE 0)

\* The branch with history: operational_duration after the loop and the
\* remaining time.
HistoryDuration(svc, hist, start, end) ==
    Remaining(Loop(hist, 1, [current_status |-> InitialStatus(svc, hist, start),
                             last_change |-> start,
                             operational_duration |-> 0]), end)

\* min((operational_duration / total_duration) * 100, 100.0)
Uptime(operational, total) == Min(Ratio(operational, total), Pct(100))

\* The function on a service row, the rows its query returned and a period.
UptimeForPeriod(svc, hist, start, end) ==
    IF Inactive(svc) THEN Pct(100)
    ELSE IF Degenerate(TotalDuration(start, end)) THEN Pct(100)
    ELSE IF hist = <<>>
      THEN Uptime(NoHistoryDuration(svc, start, end), TotalDuration(start, end))
      ELSE Uptime(HistoryDuration(svc, hist, start, end), TotalDuration(start, end))

-----------------------------------------------------------------------------
(* calculate_uptime_percentage (the public status page's uptime) *)

\* The trailing window's length in ticks: "days" (30 by default) as a duration.
Days == 2

\* ServiceStatusHistory.created_at >= cutoff_date
SinceCutoff(entry, cutoff_date) == entry.created_at >= cutoff_date

\* db.query(ServiceStatusHistory).filter(...).order_by(created_at).all()
QuerySince(table, cutoff_date) ==
    OrderByCreatedAt(SelectSeq(table, LAMBDA entry : SinceCutoff(entry, cutoff_date)))

\* service_count = len([s for s in services if s.is_active])
ServiceCount(services) ==
    Cardinality({i \in 1..Len(services) : services[i].is_active})

\* One pass of "for entry in history" of calculate_uptime_percentage.
FleetLoopBody(entry, loc) ==
    [current_status |-> entry.status,
     last_change |-> entry.created_at,
     operational_time |->
        loc.operational_time
          + (IF loc.current_status = OPERATIONAL
               THEN entry.created_at - loc.last_change ELSE 0)]

RECURSIVE FleetLoop(_, _, _)
FleetLoop(hist, i, loc) ==
    IF i > Len(hist) THEN loc ELSE FleetLoop(hist, i + 1, FleetLoopBody(hist[i], loc))

\* What one active service adds to total_uptime: 100.0 without history,
\* else the walk from OPERATIONAL at cutoff_date up to utcnow(), over
\* total_time = days * 24 * 60 * 60, capped at 100.0.
ServiceUptime(hist, cutoff_date, utcnow) ==
    IF hist = <<>> THEN Pct(100)
    ELSE LET loc == FleetLoop(hist, 1, [current_status |-> OPERATIONAL,
                                        last_change |-> cutoff_date,
                                        operational_time |-> 0])
             operational_time ==
                 loc.operational_time
                   + (IF loc.current_status = OPERATIONAL
                        THEN utcnow - loc.last_change ELSE 0)
         IN Min(Ratio(operational_time, Days), Pct(100))

\* round(total / count, 2): to the nearest 0.01, a tie to the even neighbour.
Round2(total, count) ==
    LET d == count * Quantum
        q == total \div d
        r == total % d
    IN IF 2 * r < d THEN q * Quantum
       ELSE IF 2 * r > d THEN (q + 1) * Quantum
       ELSE IF q % 2 = 0 THEN q * Quantum ELSE (q + 1) * Quantum

-----------------------------------------------------------------------------
(* get_uptime_metrics (the dashboard's bucketed uptime) *)

\* One hour in ticks; timedelta(days=1) is 24 of them.
HourTicks == 3
DayTicks == 24 * HourTicks

\* "periods" of the daily and of the hourly branch.
DailyPeriods == 30
HourlyPeriods == 24

\* .replace(hour=0, minute=0, second=0, microsecond=0) for a period of one day,
\* .replace(minute=0, second=0, microsecond=0) for a period of one hour.
Floor(t, period) == t - (t % period)

\* day_start / hour_start of pass i of "for i in range(periods)".
PeriodStart(now, i, period) == Floor(now - (i + 1) * period, period)

\* day_end / hour_end of pass i.
PeriodEnd(now, i, period) == PeriodStart(now, i, period) + period

\* The values calculate_service_uptime_for_period may return for pass i, one
\* for each order in which its query may return the rows.
PeriodUptimes(svc, table, now, i, period) ==
    {UptimeForPeriod(svc, hist, PeriodStart(now, i, period), PeriodEnd(now, i, period)) :
       hist \in QueryHistory(table, PeriodStart(now, i, period),
                             PeriodEnd(now, i, period))}

\* The values of "uptime" over the passes i, i+1, .. periods-1, in loop order.
RECURSIVE Uptimes(_, _, _, _, _, _)
Uptimes(svc, table, now, i, period, periods) ==
    IF i >= periods THEN {<<>>}
    ELSE {<<u>> \o rest : u \in PeriodUptimes(svc, table, now, i, period),
                          rest \in Uptimes(svc, table, now, i + 1, period, periods)}

\* UptimeDataPoint(timestamp=day_start.isoformat(),
\*                 uptime_percentage=round(uptime, 2), ...)
UptimeDataPoint(now, i, period, uptime) ==
    [timestamp |-> PeriodStart(now, i, period),
     uptime_percentage |-> Round2(uptime, 1)]

\* data_points after the loop and data_points.reverse(): the point of pass
\* periods-1 first.
Appended(now, period, uptimes) ==
    [j \in 1..Len(uptimes) |-> UptimeDataPoint(now, j - 1, period, uptimes[j])]
DataPoints(now, period, uptimes) ==
    [j \in 1..Len(uptimes) |->
       UptimeDataPoint(now, Len(uptimes) - j, period, uptimes[Len(uptimes) - j + 1])]

\* service_total_uptime after the loop.
RECURSIVE Sum(_)
Sum(seq) == IF seq = <<>> THEN 0 ELSE seq[1] + Sum(Tail(seq))

\* overall_uptime=round(service_total_uptime / periods, 2)
TruncatedMean(total, periods) == ((total \div periods) \div Pct(1)) * Pct(1)
ServiceOverall(total, periods) == Round2(total, periods)

\* ServiceUptimeData(..., data_points=data_points, overall_uptime=...)
ServiceUptimeData(id, now, period, uptimes) ==
    [service_id |-> id,
     data_points |-> DataPoints(now, period, uptimes),
     overall_uptime |-> ServiceOverall(Sum(uptimes), Len(uptimes))]

\* Lines 235-238 and 242: the mean of the services' overall_uptime, rounded.
OverallUptime(data) ==
    IF data # <<>>
      THEN Round2(Sum([j \in 1..Len(data) |-> data[j].overall_uptime]), Len(data))
      ELSE Pct(100)

\* Service.is_active == True, in table order.
ActiveServices(svcs) ==
    SelectSeq([j \in 1..Len(svcs) |-> [id |-> j, row |-> svcs[j]]],
              LAMBDA s : s.row.is_active)

\* timedelta(days=1) of the daily branch, timedelta(hours=1) of the hourly one.
PeriodOf(type) == IF type = "daily" THEN DayTicks ELSE HourTicks

-----------------------------------------------------------------------------
(* calculate_overall_status (the public status page's overall status) *)

\* statuses = [service.status for service in services if service.is_active]
AllStatuses(svcs) == [i \in 1..Len(svcs) |-> svcs[i].status]
ActiveStatuses(svcs) ==
    LET active == SelectSeq(svcs, LAMBDA svc : svc.is_active)
    IN [i \in 1..Len(active) |-> active[i].status]

\* "X in statuses"
In(x, statuses) == \E i \in 1..Len(statuses) : statuses[i] = x

\* The checks on statuses, in the order the code makes them.
MaintenanceFirst(statuses) ==
    IF In(MAJOR_OUTAGE, statuses) THEN "major_outage"
    ELSE IF In(PARTIAL_OUTAGE, statuses) THEN "partial_outage"
    ELSE IF In(MAINTENANCE, statuses) THEN "maintenance"
    ELSE IF In(DEGRADED_PERFORMANCE, statuses) THEN "degraded_performance"
    ELSE "operational"
FirstNotOperational(statuses) ==
    LET at == {i \in 1..Len(statuses) : statuses[i] # OPERATIONAL}
    IN IF at = {} THEN "operational"
       ELSE statuses[CHOOSE i \in at : \A j \in at : i <= j]
WorstOf(statuses) ==
    IF In(MAJOR_OUTAGE, statuses) THEN "major_outage"
    ELSE IF In(PARTIAL_OUTAGE, statuses) THEN "partial_outage"
    ELSE IF In(DEGRADED_PERFORMANCE, statuses) THEN "degraded_performance"
    ELSE IF In(MAINTENANCE, statuses) THEN "maintenance"
    ELSE "operational"

\* The function on a list of service rows.
OverallStatus(svcs) ==
    IF svcs = <<>> THEN "operational"
    ELSE IF ActiveStatuses(svcs) = <<>> THEN "operational"
    ELSE WorstOf(ActiveStatuses(svcs))

-----------------------------------------------------------------------------
(* create_service, update_service, update_service_status, delete_service *)

\* A column not set.
Unset == "unset"

\* The rows of services of an organization, by id, as far as the endpoints
\* read and write them.
ServiceRow(name, st, active, changed) ==
    [name |-> name, status |-> st, is_active |-> active,
     last_status_change |-> changed]

\* Service(name=service_data.name, status=ServiceStatus.OPERATIONAL, ...), with
\* the defaults of is_active and last_status_change.
NewService(name, t) == ServiceRow(name, OPERATIONAL, TRUE, t)

\* A row of service_status_history: the table holds every service's rows.
HistoryRow(id, st, previous, t) ==
    [service_id |-> id, status |-> st, previous_status |-> previous,
     created_at |-> t]

\* The query for the service of a request: Service.id == service_id and
\* Service.is_active == True.
Lookup(table, id) == id \in 1..Len(table) /\ table[id].is_active

\* The query of create_service for an active service of that name.
NameTaken(table, name) ==
    \E id \in 1..Len(table) : table[id].is_active /\ table[id].name = name

\* "for field, value in update_data.items(): setattr(service, field, value)".
SetAttrs(row, update_data) ==
    [f \in DOMAIN row |-> IF f \in DOMAIN update_data THEN update_data[f] ELSE row[f]]

\* "if service_data.status and service_data.status != previous_status"
StatusChanged(service_data, previous_status) ==
    "status" \in DOMAIN service_data /\ service_data.status # previous_status

\* The UPDATE of a commit: the columns the session changed on the object it
\* loaded, the other columns as the table holds them.
Flush(current, loaded, assigned, stamped) ==
    [f \in DOMAIN current |->
       IF assigned[f] # loaded[f] \/ (stamped /\ f = "last_status_change")
         THEN assigned[f] ELSE current[f]]

\* db.add(status_history) and the INSERT of the commit.
ReplaceLatest(table, row) ==
    IF \E i \in 1..Len(table) : table[i].service_id = row.service_id
      THEN LET last == CHOOSE i \in 1..Len(table) :
                          /\ table[i].service_id = row.service_id
                          /\ \A j \in i+1..Len(table) :
                                table[j].service_id # row.service_id
           IN [table EXCEPT ![last] = row]
      ELSE Append(table, row)
AddRow(table, row) == Append(table, row)

\* The rows of one service, by id.
LogOf(table, id) == SelectSeq(table, LAMBDA row : row.service_id = id)

-----------------------------------------------------------------------------
(* State *)

VARIABLES
    \* One call of calculate_service_uptime_for_period(service, db,
    \* start_time, end_time): arguments, locals and the value returned.
    service,               \* the Service row passed in
    status_history,        \* the service's rows of service_status_history, by id
    start_time, end_time,  \* the period
    pc,                    \* where the call stands
    history,               \* the query's result
    total_duration,
    current_status,        \* as set before the loop
    operational_duration,
    result,                \* the value returned, when pc = "done"
    \* One call of calculate_uptime_percentage(services, db).
    services,              \* the Service rows passed in
    db,                    \* per service, its rows of service_status_history, by id
    clock,                 \* what datetime.utcnow() returns now
    called_at,             \* the clock when the call began
    fpc,                   \* where the call stands
    k,                     \* the index of "for service in services"
    cutoff_date,
    fleet_history,         \* the query's result for services[k]
    total_uptime,
    service_count,
    added,                 \* per service, what the loop added to total_uptime
    uptime_percentage,     \* the value returned, when fpc = "done"
    \* One call of calculate_overall_status(services).
    listed,                \* the Service rows passed in (status, is_active)
    rpc,                   \* where the call stands
    statuses,              \* the statuses of the active ones
    overall_status,        \* the value returned, when rpc = "done"
    \* One request GET /uptime/{period_type} of a member of the organization.
    org,                   \* the organization's rows of services, by id
    org_history,           \* per service, its rows of service_status_history, by id
    period_type,           \* the path parameter
    utc,                   \* what datetime.now(timezone.utc) returns
    mpc,                   \* where the request stands
    found,                 \* "services": the query's result
    now_utc,               \* "now"
    periods,
    period_label,
    m,                     \* the index of "for service in services"
    service_uptime_data,
    status_code,           \* of the response, when mpc = "done"
    response,              \* the body of a response with status 200
    \* The services API of one organization and its database.
    services_table,        \* the rows of services, by id
    history_table,         \* the rows of service_status_history, by id
    server_time,           \* what the clocks return now
    session,               \* per worker, the request it handles
    calls,                 \* requests begun so far
    \* The incidents API of one organization and its database.
    incidents,             \* the rows of incidents
    incident_updates,      \* the rows of incident_updates, in insertion order
    incident_services,     \* the rows of the association table
    incident_seq,          \* the last id the incidents table issued
    incident_time,         \* what datetime.utcnow() returns now
    handling,              \* per worker, the request it handles
    requests_begun         \* requests begun so far

args == <<service, status_history, start_time, end_time>>

callVars == <<service, status_history, start_time, end_time, pc, history,
              total_duration, current_status, operational_duration, result>>

fleetVars == <<services, db, clock, called_at, fpc, k, cutoff_date, fleet_history,
               total_uptime, service_count, added, uptime_percentage>>

rollupVars == <<listed, rpc, statuses, overall_status>>

metricsVars == <<org, org_history, period_type, utc, mpc, found, now_utc, periods,
                 period_label, m, service_uptime_data, status_code, response>>

apiVars == <<services_table, history_table, server_time, session, calls>>

incidentVars == <<incidents, incident_updates, incident_services, incident_seq,
                  incident_time, handling, requests_begun>>

vars == <<callVars, fleetVars, rollupVars, metricsVars, apiVars, incidentVars>>

\* What the actions of one call leave alone: the other calls.
beyondCall == <<fleetVars, rollupVars, metricsVars, apiVars, incidentVars>>
beyondFleet == <<callVars, rollupVars, metricsVars, apiVars, incidentVars>>
beyondRollup == <<callVars, fleetVars, metricsVars, apiVars, incidentVars>>
beyondMetrics == <<callVars, fleetVars, rollupVars, apiVars, incidentVars>>
beyondApi == <<callVars, fleetVars, rollupVars, metricsVars, incidentVars>>
beyondIncident == <<callVars, fleetVars, rollupVars, metricsVars, apiVars>>

\* The tables the API writes, with n rows and no instant after tmax: rows in
\* insertion order, created_at never decreasing, the first row without
\* previous_status (create_service, init_db) and every later one carrying the
\* status before it.
TablesOf(n, tmax) ==
    {[i \in 1..n |->
        [created_at |-> ts[i], status |-> st[i],
         previous_status |-> IF i = 1 THEN NoStatus ELSE st[i - 1]]] :
       ts \in {t \in [1..n -> 0..tmax] : \A i \in 1..n-1 : t[i] <= t[i + 1]},
       st \in [1..n -> ServiceStatus]}

Tables == UNION {TablesOf(n, MaxTime) : n \in 0..MaxEvents}

CallIdle ==
    /\ service = [status |-> OPERATIONAL, last_status_change |-> 0, is_active |-> TRUE]
    /\ status_history = <<>>
    /\ start_time = 0
    /\ end_time = 0
    /\ pc = "idle"
    /\ history = <<>>
    /\ total_duration = 0
    /\ current_status = NoStatus
    /\ operational_duration = 0
    /\ result = 0

FleetIdle ==
    /\ services = <<>>
    /\ db = <<>>
    /\ clock = 0
    /\ called_at = 0
    /\ fpc = "idle"
    /\ k = 0
    /\ cutoff_date = 0
    /\ fleet_history = <<>>
    /\ total_uptime = 0
    /\ service_count = 0
    /\ added = <<>>
    /\ uptime_percentage = 0

RollupIdle ==
    /\ listed = <<>>
    /\ rpc = "idle"
    /\ statuses = <<>>
    /\ overall_status = "operational"

\* No request in the API.
ApiIdle ==
    /\ services_table = <<>>
    /\ history_table = <<>>
    /\ server_time = 0
    /\ session = <<>>
    /\ calls = 0

\* No request in the incidents API.
IncidentIdle ==
    /\ incidents = {}
    /\ incident_updates = <<>>
    /\ incident_services = {}
    /\ incident_seq = 0
    /\ incident_time = 0
    /\ handling = <<>>
    /\ requests_begun = 0

\* No response yet.
NoResponse == [services |-> <<>>, overall_uptime |-> 0, period_type |-> "",
               period_label |-> ""]

MetricsIdle ==
    /\ org = <<>>
    /\ org_history = <<>>
    /\ period_type = ""
    /\ utc = 0
    /\ mpc = "idle"
    /\ found = <<>>
    /\ now_utc = 0
    /\ periods = 0
    /\ period_label = ""
    /\ m = 0
    /\ service_uptime_data = <<>>
    /\ status_code = 0
    /\ response = NoResponse

-----------------------------------------------------------------------------
(* Spec: calculate_service_uptime_for_period on every service row, table    *)
(* and period.                                                               *)

Init ==
    /\ service \in Service
    /\ status_history \in Tables
    /\ start_time \in Times
    /\ end_time \in Times
    /\ pc = "call"
    /\ history = <<>>
    /\ total_duration = 0
    /\ current_status = NoStatus
    /\ operational_duration = 0
    /\ result = 0
    /\ FleetIdle
    /\ RollupIdle
    /\ MetricsIdle
    /\ ApiIdle
    /\ IncidentIdle

\* Lines 64-78: the inactive return, the query, the degenerate-window return.
Call ==
    /\ pc = "call"
    /\ IF Inactive(service)
         THEN /\ pc' = "done"
              /\ result' = Pct(100)
              /\ UNCHANGED <<history, total_duration>>
         ELSE /\ history' \in QueryHistory(status_history, start_time, end_time)
              /\ total_duration' = TotalDuration(start_time, end_time)
              /\ IF Degenerate(total_duration')
                   THEN pc' = "done" /\ result' = Pct(100)
                   ELSE /\ pc' = IF history' = <<>> THEN "no_history" ELSE "with_history"
                        /\ UNCHANGED result
    /\ UNCHANGED <<args, current_status, operational_duration, beyondCall>>

\* Lines 83-109.
NoHistory ==
    /\ pc = "no_history"
    /\ operational_duration' = NoHistoryDuration(service, start_time, end_time)
    /\ result' = Uptime(operational_duration', total_duration)
    /\ pc' = "done"
    /\ UNCHANGED <<args, history, total_duration, current_status, beyondCall>>

\* Lines 112-119.
SetInitialStatus ==
    /\ pc = "with_history"
    /\ current_status' = InitialStatus(service, history, start_time)
    /\ pc' = "loop"
    /\ UNCHANGED <<args, history, total_duration, operational_duration, result,
                   beyondCall>>

\* Lines 122-134.
WalkHistory ==
    /\ pc = "loop"
    /\ operational_duration' =
         Remaining(Loop(history, 1, [current_status |-> current_status,
                                     last_change |-> start_time,
                                     operational_duration |-> 0]), end_time)
    /\ result' = Uptime(operational_duration', total_duration)
    /\ pc' = "done"
    /\ UNCHANGED <<args, history, total_duration, current_status, beyondCall>>

Next == Call \/ NoHistory \/ SetInitialStatus \/ WalkHistory

Spec == Init /\ [][Next]_vars

-----------------------------------------------------------------------------
(* FleetSpec: calculate_uptime_percentage on every list of services, while  *)
(* the clock runs.                                                          *)

\* Services one organization has at most.
MaxServices == 2

\* The history tables of n services that hold at most rows rows together.
RECURSIVE Dbs(_, _)
Dbs(n, rows) ==
    IF n = 0 THEN {<<>>}
    ELSE UNION {
           {Append(d, tb) : d \in Dbs(n - 1, rows - c), tb \in TablesOf(c, MaxTime)} :
           c \in 0..rows}

\* Nothing in the tables is dated after the clock.
Past(svcs, tables, now) ==
    \A i \in 1..Len(svcs) :
       /\ svcs[i].last_status_change <= now
       /\ \A j \in 1..Len(tables[i]) : tables[i][j].created_at <= now

FleetInit ==
    /\ CallIdle
    /\ RollupIdle
    /\ MetricsIdle
    /\ ApiIdle
    /\ IncidentIdle
    /\ \E n \in 0..MaxServices :
          /\ db \in Dbs(n, MaxEvents)
          /\ services \in [1..n -> Service]
    /\ clock \in Days..MaxTime
    /\ Past(services, db, clock)
    /\ called_at = clock
    /\ fpc = "call"
    /\ k = 0
    /\ cutoff_date = 0
    /\ fleet_history = <<>>
    /\ total_uptime = 0
    /\ service_count = 0
    /\ added = <<>>
    /\ uptime_percentage = 0

\* What is added for a service the loop skips ("continue" on is_active).
Skipped == "skipped"

\* Lines 78-85.
FleetCall ==
    /\ fpc = "call"
    /\ IF services = <<>>
         THEN /\ fpc' = "done"
              /\ uptime_percentage' = Pct(100)
              /\ UNCHANGED <<total_uptime, service_count, k>>
         ELSE /\ total_uptime' = 0
              /\ service_count' = ServiceCount(services)
              /\ IF service_count' = 0
                   THEN /\ fpc' = "done"
                        /\ uptime_percentage' = Pct(100)
                        /\ UNCHANGED k
                   ELSE /\ fpc' = "for"
                        /\ k' = 1
                        /\ UNCHANGED uptime_percentage
    /\ UNCHANGED <<services, db, clock, called_at, cutoff_date, fleet_history, added,
                   beyondFleet>>

\* Lines 87-99: the next service; an inactive one is skipped, for an active
\* one the clock is read for cutoff_date and the history is queried.
ForService ==
    /\ fpc = "for"
    /\ k <= Len(services)
    /\ IF ~services[k].is_active
         THEN /\ k' = k + 1
              /\ added' = Append(added, Skipped)
              /\ UNCHANGED <<fpc, cutoff_date, fleet_history>>
         ELSE /\ cutoff_date' = clock - Days
              /\ fleet_history' \in QuerySince(db[k], cutoff_date')
              /\ fpc' = "walk"
              /\ UNCHANGED <<k, added>>
    /\ UNCHANGED <<services, db, clock, called_at, total_uptime, service_count,
                   uptime_percentage, beyondFleet>>

\* Lines 101-128: the service's uptime, with the clock read again for the
\* time after the last row.
AddServiceUptime ==
    /\ fpc = "walk"
    /\ LET service_uptime == ServiceUptime(fleet_history, cutoff_date, clock)
       IN /\ total_uptime' = total_uptime + service_uptime
          /\ added' = Append(added, service_uptime)
    /\ k' = k + 1
    /\ fpc' = "for"
    /\ UNCHANGED <<services, db, clock, called_at, cutoff_date, fleet_history,
                   service_count, uptime_percentage, beyondFleet>>

\* Line 130.
FleetReturn ==
    /\ fpc = "for"
    /\ k > Len(services)
    /\ uptime_percentage' = Round2(total_uptime, service_count)
    /\ fpc' = "done"
    /\ UNCHANGED <<services, db, clock, called_at, k, cutoff_date, fleet_history,
                   total_uptime, service_count, added, beyondFleet>>

\* Time passes while the call runs.
Tick ==
    /\ fpc \in {"call", "for", "walk"}
    /\ clock < MaxTime
    /\ clock' = clock + 1
    /\ UNCHANGED <<services, db, called_at, fpc, k, cutoff_date, fleet_history,
                   total_uptime, service_count, added, uptime_percentage, beyondFleet>>

FleetNext == FleetCall \/ ForService \/ AddServiceUptime \/ FleetReturn \/ Tick

FleetSpec == FleetInit /\ [][FleetNext]_vars

-----------------------------------------------------------------------------
(* RollupSpec: calculate_overall_status on every list of services.          *)

\* Services in the list passed to calculate_overall_status, at most.
MaxListed == 3

RollupInit ==
    /\ CallIdle
    /\ FleetIdle
    /\ MetricsIdle
    /\ ApiIdle
    /\ IncidentIdle
    /\ \E n \in 0..MaxListed :
          listed \in [1..n -> [status : ServiceStatus, is_active : BOOLEAN]]
    /\ rpc = "call"
    /\ statuses = <<>>
    /\ overall_status = "operational"

\* Lines 49-55: the empty list, the statuses of the active services, no
\* active service.
OverallCall ==
    /\ rpc = "call"
    /\ IF listed = <<>>
         THEN /\ rpc' = "done"
              /\ overall_status' = "operational"
              /\ UNCHANGED statuses
         ELSE /\ statuses' = ActiveStatuses(listed)
              /\ IF statuses' = <<>>
                   THEN rpc' = "done" /\ overall_status' = "operational"
                   ELSE rpc' = "scan" /\ UNCHANGED overall_status
    /\ UNCHANGED <<listed, beyondRollup>>

\* Lines 57-74.
OverallScan ==
    /\ rpc = "scan"
    /\ overall_status' = WorstOf(statuses)
    /\ rpc' = "done"
    /\ UNCHANGED <<listed, statuses, beyondRollup>>

RollupNext == OverallCall \/ OverallScan

RollupSpec == RollupInit /\ [][RollupNext]_vars

-----------------------------------------------------------------------------
(* MetricsSpec: GET /uptime/{period_type} by a member of an organization,   *)
(* on every organization, path parameter and clock of the bounds.           *)

\* Services of one organization, and rows of its services' history together,
\* at most.
MaxOrg == 1
MaxRows == 1

\* A midnight that has the days of the daily branch after instant 0.
Midnight == (DailyPeriods + 1) * DayTicks

\* The instants of status changes: long before every period, on a boundary
\* between two days, on a boundary between two hours, one tick before Midnight.
Instants == {0, Midnight - DayTicks, Midnight - HourTicks, Midnight - 1}

\* The clock at the request: a midnight, and an instant off the hour.
RequestTimes == {Midnight, Midnight + HourTicks + 1}

\* The statuses of the organization's services and rows.
MetricStatuses == {OPERATIONAL, MAJOR_OUTAGE}

\* The path parameters: the two the code names and another.
PeriodTypes == {"daily", "hourly", "weekly"}

\* The rows of services of the organization.
OrgService ==
    [status : MetricStatuses, last_status_change : Instants, is_active : BOOLEAN]

\* The tables of n rows the API writes (as TablesOf) at these instants.
TablesAt(n) ==
    {[i \in 1..n |->
        [created_at |-> ts[i], status |-> st[i],
         previous_status |-> IF i = 1 THEN NoStatus ELSE st[i - 1]]] :
       ts \in {t \in [1..n -> Instants] : \A i \in 1..n-1 : t[i] <= t[i + 1]},
       st \in [1..n -> MetricStatuses]}

\* The history tables of n services that hold at most rows rows together.
RECURSIVE OrgHistories(_, _)
OrgHistories(n, rows) ==
    IF n = 0 THEN {<<>>}
    ELSE UNION {
           {Append(d, tb) : d \in OrgHistories(n - 1, rows - c), tb \in TablesAt(c)} :
           c \in 0..rows}

MetricsInit ==
    /\ CallIdle
    /\ FleetIdle
    /\ RollupIdle
    /\ ApiIdle
    /\ IncidentIdle
    /\ \E n \in 0..MaxOrg :
          /\ org_history \in OrgHistories(n, MaxRows)
          /\ org \in [1..n -> OrgService]
    /\ period_type \in PeriodTypes
    /\ utc \in RequestTimes
    /\ mpc = "call"
    /\ found = <<>>
    /\ now_utc = 0
    /\ periods = 0
    /\ period_label = ""
    /\ m = 0
    /\ service_uptime_data = <<>>
    /\ status_code = 0
    /\ response = NoResponse

\* Lines 146-159: the query, and the response of an organization without
\* active services.
NoServices ==
    /\ mpc = "call"
    /\ ActiveServices(org) = <<>>
    /\ found' = ActiveServices(org)
    /\ status_code' = 200
    /\ response' = [services |-> <<>>, overall_uptime |-> Pct(100),
                    period_type |-> period_type, period_label |-> "No services"]
    /\ mpc' = "done"
    /\ UNCHANGED <<org, org_history, period_type, utc, now_utc, periods, period_label, m,
                   service_uptime_data, beyondMetrics>>

\* Lines 146-167: the query, now, and the head of the daily branch.
Daily ==
    /\ mpc = "call"
    /\ ActiveServices(org) # <<>>
    /\ period_type = "daily"
    /\ found' = ActiveServices(org)
    /\ now_utc' = utc
    /\ periods' = DailyPeriods
    /\ period_label' = "Last 30 days"
    /\ m' = 1
    /\ mpc' = "loop"
    /\ UNCHANGED <<org, org_history, period_type, utc, service_uptime_data,
                   status_code, response, beyondMetrics>>

\* Lines 146-161 and 196-199: the query, now, and the head of the hourly branch.
Hourly ==
    /\ mpc = "call"
    /\ ActiveServices(org) # <<>>
    /\ period_type = "hourly"
    /\ found' = ActiveServices(org)
    /\ now_utc' = utc
    /\ periods' = HourlyPeriods
    /\ period_label' = "Last 24 hours"
    /\ m' = 1
    /\ mpc' = "loop"
    /\ UNCHANGED <<org, org_history, period_type, utc, service_uptime_data,
                   status_code, response, beyondMetrics>>

\* Lines 146-161 and 228-232: the query, now, and HTTP 400 for another
\* period_type.
InvalidPeriodType ==
    /\ mpc = "call"
    /\ ActiveServices(org) # <<>>
    /\ period_type \notin {"daily", "hourly"}
    /\ found' = ActiveServices(org)
    /\ now_utc' = utc
    /\ status_code' = 400
    /\ mpc' = "done"
    /\ UNCHANGED <<org, org_history, period_type, utc, periods, period_label, m,
                   service_uptime_data, response, beyondMetrics>>

\* Lines 169-194 (201-226): one pass of "for service in services".
ForFound ==
    /\ mpc = "loop"
    /\ m <= Len(found)
    /\ \E uptimes \in Uptimes(found[m].row, org_history[found[m].id], now_utc, 0,
                              PeriodOf(period_type), periods) :
          service_uptime_data' =
              Append(service_uptime_data,
                     ServiceUptimeData(found[m].id, now_utc, PeriodOf(period_type), uptimes))
    /\ m' = m + 1
    /\ UNCHANGED <<org, org_history, period_type, utc, mpc, found, now_utc, periods,
                   period_label, status_code, response, beyondMetrics>>

\* Lines 235-245: the response.
MetricsReturn ==
    /\ mpc = "loop"
    /\ m > Len(found)
    /\ status_code' = 200
    /\ response' = [services |-> service_uptime_data,
                    overall_uptime |-> OverallUptime(service_uptime_data),
                    period_type |-> period_type, period_label |-> period_label]
    /\ mpc' = "done"
    /\ UNCHANGED <<org, org_history, period_type, utc, found, now_utc, periods,
                   period_label, m, service_uptime_data, beyondMetrics>>

MetricsNext ==
    NoServices \/ Daily \/ Hourly \/ InvalidPeriodType \/ ForFound \/ MetricsReturn

MetricsSpec == MetricsInit /\ [][MetricsNext]_vars

-----------------------------------------------------------------------------
(* ConsistentSpec: GET /uptime/{period_type} on the organizations whose     *)
(* service and history agree, as requests handled one after the other       *)
(* leave them.                                                              *)

\* Rows of history of the service, at most.
MaxChanges == 2

\* The instants of the rows: the boundaries between the last days before
\* Midnight, and one tick after each.
ChangeInstants ==
    {Midnight - d * DayTicks + o : d \in 1..3, o \in {0, 1}}

\* The histories of n rows: the first without previous_status (create_service,
\* init_db), every later one carrying the status before it.
ConsistentTables(n) ==
    {[i \in 1..n |->
        [created_at |-> ts[i], status |-> st[i],
         previous_status |-> IF i = 1 THEN NoStatus ELSE st[i - 1]]] :
       ts \in {t \in [1..n -> ChangeInstants] : \A i \in 1..n-1 : t[i] <= t[i + 1]},
       st \in [1..n -> MetricStatuses]}

\* The active service a history belongs to: its status is the status of the
\* last row and its last_status_change that row's created_at.
ServiceOf(table) ==
    [status |-> table[Len(table)].status,
     last_status_change |-> table[Len(table)].created_at,
     is_active |-> TRUE]

ConsistentInit ==
    /\ CallIdle
    /\ FleetIdle
    /\ RollupIdle
    /\ ApiIdle
    /\ IncidentIdle
    /\ org_history \in
          {<<>>} \cup {<<table>> : table \in UNION {ConsistentTables(n) : n \in 1..MaxChanges}}
    /\ org = [id \in 1..Len(org_history) |-> ServiceOf(org_history[id])]
    /\ period_type \in PeriodTypes
    /\ utc \in RequestTimes
    /\ mpc = "call"
    /\ found = <<>>
    /\ now_utc = 0
    /\ periods = 0
    /\ period_label = ""
    /\ m = 0
    /\ service_uptime_data = <<>>
    /\ status_code = 0
    /\ response = NoResponse

ConsistentSpec == ConsistentInit /\ [][MetricsNext]_vars

-----------------------------------------------------------------------------
(* ApiSpec: requests to create_service, update_service,                     *)
(* update_service_status and delete_service of one organization, handled by *)
(* workers that share the database, while the clock runs.                   *)

\* Requests begun, and the last instant of the clock, at most.
MaxCalls == 2
MaxClock == 1

\* The workers, the names and statuses of the request bodies.
Workers == {1, 2}
Names == {"api", "web"}
RequestStatuses == {OPERATIONAL, MAJOR_OUTAGE}

\* A request body without fields.
NoData == [f \in {} |-> Unset]

\* ServiceCreate, ServiceUpdate and ServiceStatusUpdate, as far as the
\* endpoints read them: the fields the request sets (dict(exclude_unset=True)).
ServiceCreate == {[name |-> n] : n \in Names}
ServiceUpdate ==
    {n @@ st @@ a : n \in {NoData} \cup {[name |-> x] : x \in Names},
                    st \in {NoData} \cup {[status |-> x] : x \in RequestStatuses},
                    a \in {NoData} \cup {[is_active |-> x] : x \in BOOLEAN}}
ServiceStatusUpdate == {[status |-> st] : st \in RequestStatuses}

\* No service loaded.
NoRow == ServiceRow(Unset, Unset, FALSE, 0)

\* A worker without a request.
Free ==
    [op |-> "none", pc |-> "idle", service_id |-> 0, data |-> NoData,
     loaded |-> NoRow, assigned |-> NoRow, stamped |-> FALSE, status_code |-> 0]

\* The worker has no request in hand.
IsFree(w) == session[w].pc \in {"idle", "done"}

\* The worker may take a request: requests go to the first worker free.
CanBegin(w) ==
    /\ IsFree(w)
    /\ \A v \in Workers : v < w => ~IsFree(v)
    /\ calls < MaxCalls

\* The ids of requests: those of the table and one it does not hold.
Ids == 1..Len(services_table)+1

\* The request ends with an error before it has written.
Raise(w, op, id, code) ==
    session' = [session EXCEPT ![w] =
                  [Free EXCEPT !.op = op, !.pc = "done", !.service_id = id,
                               !.status_code = code]]

\* The request goes on with the service it loaded and the values it assigned.
Proceed(w, op, id, data, assigned, stamped) ==
    session' = [session EXCEPT ![w] =
                  [op |-> op, pc |-> "loaded", service_id |-> id, data |-> data,
                   loaded |-> services_table[id], assigned |-> assigned,
                   stamped |-> stamped, status_code |-> 0]]

\* The request ends with status 200.
Finish(w) ==
    session' = [session EXCEPT ![w] =
                  [Free EXCEPT !.op = session[w].op, !.pc = "done",
                               !.service_id = session[w].service_id,
                               !.status_code = 200]]

\* The database is empty, or holds a service as create_service leaves it.
ApiInit ==
    /\ CallIdle
    /\ FleetIdle
    /\ RollupIdle
    /\ MetricsIdle
    /\ IncidentIdle
    /\ services_table \in {<<>>, <<NewService("api", 0)>>}
    /\ history_table =
           [id \in 1..Len(services_table) |-> HistoryRow(id, OPERATIONAL, NoStatus, 0)]
    /\ server_time = 0
    /\ session = [w \in Workers |-> Free]
    /\ calls = 0

\* create_service, lines 114-129: the query for the name, HTTP 400 if an
\* active service has it.
CreateCheck ==
    \E w \in Workers, data \in ServiceCreate :
       /\ CanBegin(w)
       /\ calls' = calls + 1
       /\ IF NameTaken(services_table, data.name)
            THEN Raise(w, "create", 0, 400)
            ELSE session' = [session EXCEPT ![w] =
                               [Free EXCEPT !.op = "create", !.pc = "checked",
                                            !.data = data]]
       /\ UNCHANGED <<services_table, history_table, server_time, beyondApi>>

\* create_service, lines 131-145: the new service is committed.
CreateCommit ==
    \E w \in Workers :
       /\ session[w].op = "create"
       /\ session[w].pc = "checked"
       /\ services_table' =
              Append(services_table, NewService(session[w].data.name, server_time))
       /\ session' = [session EXCEPT ![w].pc = "created",
                                     ![w].service_id = Len(services_table) + 1]
       /\ UNCHANGED <<history_table, server_time, calls, beyondApi>>

\* create_service, lines 147-156: the initial row of history is committed.
CreateHistory ==
    \E w \in Workers :
       /\ session[w].op = "create"
       /\ session[w].pc = "created"
       /\ history_table' =
              AddRow(history_table,
                     HistoryRow(session[w].service_id, OPERATIONAL, NoStatus,
                                server_time))
       /\ Finish(w)
       /\ UNCHANGED <<services_table, server_time, calls, beyondApi>>

\* update_service, lines 217-243: the query, HTTP 404 without an active
\* service of that id, the fields set, CURRENT_TIMESTAMP read for a status
\* that changes.  The statement is passed to db.execute() as a plain string:
\* where the session refuses it, or the column refuses the value it returned,
\* the request ends with an error and writes nothing.
UpdateLoad ==
    \E w \in Workers, id \in Ids, data \in ServiceUpdate :
       /\ CanBegin(w)
       /\ calls' = calls + 1
       /\ IF ~Lookup(services_table, id)
            THEN Raise(w, "update", id, 404)
            ELSE LET previous_status == services_table[id].status
                     set == SetAttrs(services_table[id], data)
                 IN IF StatusChanged(data, previous_status)
                      THEN \/ Proceed(w, "update", id, data,
                                      [set EXCEPT !.last_status_change = server_time],
                                      TRUE)
                           \/ Raise(w, "update", id, 500)
                      ELSE Proceed(w, "update", id, data, set, FALSE)
       /\ UNCHANGED <<services_table, history_table, server_time, beyondApi>>

\* update_service, lines 245-255: the row of history of a status that
\* changed, and the commit.  The row's created_at (func.now()) is the
\* transaction's CURRENT_TIMESTAMP, which line 243 read.
UpdateCommit ==
    \E w \in Workers :
       LET req == session[w]
           id == req.service_id
       IN /\ req.op = "update"
          /\ req.pc = "loaded"
          /\ services_table' =
                 [services_table EXCEPT ![id] =
                    Flush(services_table[id], req.loaded, req.assigned, req.stamped)]
          /\ history_table' =
                 IF StatusChanged(req.data, req.loaded.status)
                   THEN AddRow(history_table,
                               HistoryRow(id, req.data.status, req.loaded.status,
                                          req.assigned.last_status_change))
                   ELSE history_table
          /\ Finish(w)
          /\ UNCHANGED <<server_time, calls, beyondApi>>

\* update_service_status, lines 279-300: the query, HTTP 404 without an
\* active service of that id, the status set and utcnow() read.
StatusLoad ==
    \E w \in Workers, id \in Ids, data \in ServiceStatusUpdate :
       /\ CanBegin(w)
       /\ calls' = calls + 1
       /\ IF ~Lookup(services_table, id)
            THEN Raise(w, "status", id, 404)
            ELSE Proceed(w, "status", id, data,
                         [services_table[id] EXCEPT
                            !.status = data.status,
                            !.last_status_change = server_time],
                         TRUE)
       /\ UNCHANGED <<services_table, history_table, server_time, beyondApi>>

\* update_service_status, lines 302-313: the row of history and the commit.
StatusCommit ==
    \E w \in Workers :
       LET req == session[w]
           id == req.service_id
       IN /\ req.op = "status"
          /\ req.pc = "loaded"
          /\ services_table' =
                 [services_table EXCEPT ![id] =
                    Flush(services_table[id], req.loaded, req.assigned, req.stamped)]
          /\ history_table' =
                 AddRow(history_table,
                        HistoryRow(id, req.data.status, req.loaded.status,
                                   server_time))
          /\ Finish(w)
          /\ UNCHANGED <<server_time, calls, beyondApi>>

\* delete_service, lines 338-356: the query, HTTP 404 without an active
\* service of that id, is_active set.
DeleteLoad ==
    \E w \in Workers, id \in Ids :
       /\ CanBegin(w)
       /\ calls' = calls + 1
       /\ IF ~Lookup(services_table, id)
            THEN Raise(w, "delete", id, 404)
            ELSE Proceed(w, "delete", id, NoData,
                         [services_table[id] EXCEPT !.is_active = FALSE], FALSE)
       /\ UNCHANGED <<services_table, history_table, server_time, beyondApi>>

\* delete_service, line 357: the commit.
DeleteCommit ==
    \E w \in Workers :
       LET req == session[w]
           id == req.service_id
       IN /\ req.op = "delete"
          /\ req.pc = "loaded"
          /\ services_table' =
                 [services_table EXCEPT ![id] =
                    Flush(services_table[id], req.loaded, req.assigned, req.stamped)]
          /\ Finish(w)
          /\ UNCHANGED <<history_table, server_time, calls, beyondApi>>

\* The request ends with status 200 without having written.
Return(w, op, id) ==
    session' = [session EXCEPT ![w] =
                  [Free EXCEPT !.op = op, !.pc = "done", !.service_id = id,
                               !.status_code = 200]]

\* get_service: the query, HTTP 404 without an active service of that id,
\* the service returned.
GetService ==
    \E w \in Workers, id \in Ids :
       /\ CanBegin(w)
       /\ calls' = calls + 1
       /\ IF ~Lookup(services_table, id)
            THEN Raise(w, "get", id, 404)
            ELSE Return(w, "get", id)
       /\ UNCHANGED <<services_table, history_table, server_time, beyondApi>>

\* get_service_status_history: the query, HTTP 404 without an active service
\* of that id, the rows of its history returned.
GetHistory ==
    \E w \in Workers, id \in Ids :
       /\ CanBegin(w)
       /\ calls' = calls + 1
       /\ IF ~Lookup(services_table, id)
            THEN Raise(w, "history", id, 404)
            ELSE Return(w, "history", id)
       /\ UNCHANGED <<services_table, history_table, server_time, beyondApi>>

\* Time passes.
Elapse ==
    /\ server_time < MaxClock
    /\ server_time' = server_time + 1
    /\ UNCHANGED <<services_table, history_table, session, calls, beyondApi>>

ApiNext ==
    \/ CreateCheck \/ CreateCommit \/ CreateHistory
    \/ UpdateLoad \/ UpdateCommit
    \/ StatusLoad \/ StatusCommit
    \/ DeleteLoad \/ DeleteCommit
    \/ GetService \/ GetHistory
    \/ Elapse

ApiSpec == ApiInit /\ [][ApiNext]_vars

-----------------------------------------------------------------------------
(* IncidentSpec: create_incident, update_incident, add_incident_update and  *)
(* delete_incident of one organization, handled by two workers.             *)

\* models/incident.py: IncidentStatus.
INVESTIGATING == "investigating"
IDENTIFIED == "identified"
MONITORING == "monitoring"
RESOLVED == "resolved"
IncidentStatus == {INVESTIGATING, IDENTIFIED, MONITORING, RESOLVED}

\* The statuses the requests carry.
RequestedStatuses == {INVESTIGATING, RESOLVED}

\* resolved_at: NULL, or an instant.
Null == <<>>
At(t) == <<t>>

\* The rows of incidents, incident_updates and the association table
\* incident_services, as far as the endpoints read and write them.
IncidentRow(id, title, st, resolved) ==
    [id |-> id, title |-> title, status |-> st, resolved_at |-> resolved]
UpdateRow(id, st) == [incident_id |-> id, status |-> st]
Link(id, s) == [incident_id |-> id, service_id |-> s]

\* Incident(title=incident_data.title, status=IncidentStatus.INVESTIGATING, ...).
NewIncident(id, title) == IncidentRow(id, title, INVESTIGATING, Null)

\* The ids of the organization's active services, and the lists of ids the
\* requests carry: 2 is the id of no active service.
ActiveServiceIds == {1}
ServiceIdLists == {<<>>, <<1>>, <<2>>}

\* The query for the incident of a request.
Found(table, id) == \E i \in table : i.id = id
TheIncident(table, id) == CHOOSE i \in table : i.id = id

\* incident.affected_services, as ids.
LinkedTo(table, id) == {l.service_id : l \in {x \in table : x.incident_id = id}}

\* The query for the services of a list of ids that are active and of the
\* organization.
ValidServices(ids) == {ids[i] : i \in DOMAIN ids} \cap ActiveServiceIds

\* incident_data.status: None where the body does not set it.
StatusOf(request_data) ==
    IF "status" \in DOMAIN request_data THEN request_data.status ELSE NoStatus

\* "Handle resolved status": resolved_at set for RESOLVED where it is not set,
\* cleared for anything else where it is set.
HandleResolved(st, incident, utcnow) ==
    IF st = RESOLVED /\ incident.resolved_at = Null
      THEN [incident EXCEPT !.resolved_at = At(utcnow)]
    ELSE IF st # RESOLVED /\ incident.resolved_at # Null
      THEN [incident EXCEPT !.resolved_at = Null]
    ELSE incident

\* The association table after the commit of a collection that held "loaded"
\* and now holds "target".
Relink(table, id, loaded, target) ==
    (table \ {Link(id, s) : s \in loaded \ target})
       \cup {Link(id, s) : s \in target \ loaded}

\* IncidentCreate, IncidentUpdateRequest and IncidentStatusUpdateRequest: the
\* fields the request sets.
IncidentCreate ==
    {[title |-> "db down", affected_service_ids |-> ids] : ids \in ServiceIdLists}
IncidentUpdateRequest ==
    {t @@ st @@ a :
       t \in {NoData} \cup {[title |-> "db slow"]},
       st \in {NoData} \cup {[status |-> x] : x \in RequestedStatuses},
       a \in {NoData} \cup {[affected_service_ids |-> ids] : ids \in {<<>>, <<1>>}}}
IncidentStatusUpdateRequest == {[status |-> st] : st \in RequestedStatuses}

\* No incident loaded.
NoIncident == IncidentRow(0, Unset, NoStatus, Null)

\* A worker without a request.
Waiting ==
    [op |-> "none", pc |-> "idle", incident_id |-> 0, data |-> NoData,
     loaded |-> NoIncident, assigned |-> NoIncident, linked |-> {},
     status_code |-> 0]

\* The worker has no request in hand.
IsWaiting(w) == handling[w].pc \in {"idle", "done"}

\* The worker may take a request: requests go to the first worker free.
MayBegin(w) ==
    /\ IsWaiting(w)
    /\ \A v \in Workers : v < w => ~IsWaiting(v)
    /\ requests_begun < MaxCalls

\* The ids of requests: those the table has issued and one it has not.
IncidentIds == 1..incident_seq+1

\* The request ends.
Ends(w, op, id, code) ==
    handling' = [handling EXCEPT ![w] =
                   [Waiting EXCEPT !.op = op, !.pc = "done", !.incident_id = id,
                                   !.status_code = code]]

\* The request goes on with the incident it loaded and the values it assigned.
GoesOn(w, op, id, request_data, assigned) ==
    handling' = [handling EXCEPT ![w] =
                   [op |-> op, pc |-> "loaded", incident_id |-> id,
                    data |-> request_data, loaded |-> TheIncident(incidents, id),
                    assigned |-> assigned,
                    linked |-> LinkedTo(incident_services, id),
                    status_code |-> 0]]

\* The database is empty, or holds an incident as create_incident leaves it.
IncidentInit ==
    /\ CallIdle
    /\ FleetIdle
    /\ RollupIdle
    /\ MetricsIdle
    /\ ApiIdle
    /\ incidents \in {{}, {NewIncident(1, "db down")}}
    /\ incident_seq = Cardinality(incidents)
    /\ incident_updates = [i \in 1..incident_seq |-> UpdateRow(i, INVESTIGATING)]
    /\ incident_services \in
          IF incidents = {} THEN {{}} ELSE {{}, {Link(1, 1)}}
    /\ incident_time = 0
    /\ handling = [w \in Workers |-> Waiting]
    /\ requests_begun = 0

\* create_incident, lines 140-156: the services of the request are looked up,
\* HTTP 400 if one of them is not an active service of the organization.
CreateIncidentCheck ==
    \E w \in Workers, request_data \in IncidentCreate :
       /\ MayBegin(w)
       /\ requests_begun' = requests_begun + 1
       /\ IF /\ request_data.affected_service_ids # <<>>
             /\ Cardinality(ValidServices(request_data.affected_service_ids))
                  # Len(request_data.affected_service_ids)
            THEN Ends(w, "create", 0, 400)
            ELSE handling' = [handling EXCEPT ![w] =
                                [Waiting EXCEPT !.op = "create", !.pc = "checked",
                                                !.data = request_data]]
       /\ UNCHANGED <<incidents, incident_updates, incident_services, incident_seq,
                      incident_time, beyondIncident>>

\* create_incident, lines 158-170: the new incident is committed.
CreateIncidentCommit ==
    \E w \in Workers :
       /\ handling[w].op = "create"
       /\ handling[w].pc = "checked"
       /\ incident_seq' = incident_seq + 1
       /\ incidents' = incidents \cup {NewIncident(incident_seq', handling[w].data.title)}
       /\ handling' = [handling EXCEPT ![w].pc = "created",
                                       ![w].incident_id = incident_seq']
       /\ UNCHANGED <<incident_updates, incident_services, incident_time,
                      requests_begun, beyondIncident>>

\* create_incident, lines 172-176: the affected services are committed.  An
\* incident deleted in the meantime leaves rows without incident, or a
\* database that refuses them.
CreateIncidentServices ==
    \E w \in Workers :
       LET req == handling[w]
           id == req.incident_id
           linked == Relink(incident_services, id, {},
                            {req.data.affected_service_ids[i] :
                               i \in DOMAIN req.data.affected_service_ids})
       IN /\ req.op = "create"
          /\ req.pc = "created"
          /\ \/ /\ incident_services' = linked
                /\ handling' = [handling EXCEPT ![w].pc = "linked"]
             \/ /\ ~Found(incidents, id)
                /\ req.data.affected_service_ids # <<>>
                /\ incident_services' = incident_services
                /\ Ends(w, "create", id, 500)
          /\ UNCHANGED <<incidents, incident_updates, incident_seq, incident_time,
                         requests_begun, beyondIncident>>

\* create_incident, lines 178-189: the initial update is committed and the
\* incident read again.
CreateIncidentUpdate ==
    \E w \in Workers :
       LET req == handling[w]
           id == req.incident_id
       IN /\ req.op = "create"
          /\ req.pc = "linked"
          /\ IF Found(incidents, id)
               THEN /\ incident_updates' =
                          Append(incident_updates, UpdateRow(id, INVESTIGATING))
                    /\ Ends(w, "create", id, 200)
               ELSE /\ incident_updates' \in
                          {incident_updates,
                           Append(incident_updates, UpdateRow(id, INVESTIGATING))}
                    /\ Ends(w, "create", id, 500)
          /\ UNCHANGED <<incidents, incident_services, incident_seq, incident_time,
                         requests_begun, beyondIncident>>

\* update_incident, lines 287-329: the query, HTTP 404 without an incident of
\* that id, the fields set, resolved_at handled.
UpdateIncidentLoad ==
    \E w \in Workers, id \in IncidentIds, request_data \in IncidentUpdateRequest :
       /\ MayBegin(w)
       /\ requests_begun' = requests_begun + 1
       /\ IF ~Found(incidents, id)
            THEN Ends(w, "update", id, 404)
            ELSE GoesOn(w, "update", id, request_data,
                        HandleResolved(StatusOf(request_data),
                                       SetAttrs(TheIncident(incidents, id),
                                                request_data),
                                       incident_time))
       /\ UNCHANGED <<incidents, incident_updates, incident_services, incident_seq,
                      incident_time, beyondIncident>>

\* update_incident, lines 331-332: the commit and the refresh.  An UPDATE that
\* finds no row fails, and so does the refresh of an incident deleted in the
\* meantime.
UpdateIncidentCommit ==
    \E w \in Workers :
       LET req == handling[w]
           id == req.incident_id
           target == IF "affected_service_ids" \in DOMAIN req.data
                       THEN ValidServices(req.data.affected_service_ids)
                       ELSE req.linked
           relinked == Relink(incident_services, id, req.linked, target)
       IN /\ req.op = "update"
          /\ req.pc = "loaded"
          /\ IF Found(incidents, id)
               THEN /\ incidents' =
                          (incidents \ {TheIncident(incidents, id)})
                             \cup {Flush(TheIncident(incidents, id), req.loaded,
                                         req.assigned, FALSE)}
                    /\ incident_services' = relinked
                    /\ Ends(w, "update", id, 200)
               ELSE /\ incidents' = incidents
                    /\ \/ incident_services' = incident_services
                       \/ /\ req.assigned = req.loaded
                          /\ incident_services' = relinked
                    /\ Ends(w, "update", id, 500)
          /\ UNCHANGED <<incident_updates, incident_seq, incident_time,
                         requests_begun, beyondIncident>>

\* add_incident_update, lines 375-405: the query, HTTP 404 without an incident
\* of that id, the status set, resolved_at handled.
AddUpdateLoad ==
    \E w \in Workers, id \in IncidentIds,
       request_data \in IncidentStatusUpdateRequest :
       /\ MayBegin(w)
       /\ requests_begun' = requests_begun + 1
       /\ IF ~Found(incidents, id)
            THEN Ends(w, "add_update", id, 404)
            ELSE GoesOn(w, "add_update", id, request_data,
                        HandleResolved(request_data.status,
                                       [TheIncident(incidents, id) EXCEPT
                                          !.status = request_data.status],
                                       incident_time))
       /\ UNCHANGED <<incidents, incident_updates, incident_services, incident_seq,
                      incident_time, beyondIncident>>

\* add_incident_update, lines 407-418: the commit, and the incident read for
\* the response.
AddUpdateCommit ==
    \E w \in Workers :
       LET req == handling[w]
           id == req.incident_id
           inserted == Append(incident_updates, UpdateRow(id, req.data.status))
       IN /\ req.op = "add_update"
          /\ req.pc = "loaded"
          /\ IF Found(incidents, id)
               THEN /\ incidents' =
                          (incidents \ {TheIncident(incidents, id)})
                             \cup {Flush(TheIncident(incidents, id), req.loaded,
                                         req.assigned, FALSE)}
                    /\ incident_updates' = inserted
                    /\ Ends(w, "add_update", id, 200)
               ELSE /\ incidents' = incidents
                    /\ \/ incident_updates' = incident_updates
                       \/ /\ req.assigned = req.loaded
                          /\ incident_updates' = inserted
                    /\ Ends(w, "add_update", id, 500)
          /\ UNCHANGED <<incident_services, incident_seq, incident_time,
                         requests_begun, beyondIncident>>

\* delete_incident, lines 463-482: the query, HTTP 404 without an incident of
\* that id, HTTP 400 for one that is RESOLVED.
DeleteIncidentLoad ==
    \E w \in Workers, id \in IncidentIds :
       /\ MayBegin(w)
       /\ requests_begun' = requests_begun + 1
       /\ IF ~Found(incidents, id)
            THEN Ends(w, "delete", id, 404)
            ELSE IF TheIncident(incidents, id).status = RESOLVED
              THEN Ends(w, "delete", id, 400)
              ELSE GoesOn(w, "delete", id, NoData, TheIncident(incidents, id))
       /\ UNCHANGED <<incidents, incident_updates, incident_services, incident_seq,
                      incident_time, beyondIncident>>

\* delete_incident, lines 484-492: the updates of the incident, the services
\* it loaded and the incident are deleted, and the commit.  Services another
\* request has added since stay behind, or the database refuses to delete the
\* incident they refer to.
DeleteIncidentCommit ==
    \E w \in Workers :
       LET req == handling[w]
           id == req.incident_id
           others == LinkedTo(incident_services, id) \ req.linked
       IN /\ req.op = "delete"
          /\ req.pc = "loaded"
          /\ \/ /\ incident_updates' =
                      SelectSeq(incident_updates, LAMBDA u : u.incident_id # id)
                /\ incident_services' = Relink(incident_services, id, req.linked, {})
                /\ incidents' = {i \in incidents : i.id # id}
                /\ Ends(w, "delete", id, 200)
             \/ /\ others # {}
                /\ UNCHANGED <<incidents, incident_updates, incident_services>>
                /\ Ends(w, "delete", id, 500)
          /\ UNCHANGED <<incident_seq, incident_time, requests_begun, beyondIncident>>

\* Time passes.
IncidentTick ==
    /\ incident_time < MaxClock
    /\ incident_time' = incident_time + 1
    /\ UNCHANGED <<incidents, incident_updates, incident_services, incident_seq,
                   handling, requests_begun, beyondIncident>>

IncidentNext ==
    \/ CreateIncidentCheck \/ CreateIncidentCommit
    \/ CreateIncidentServices \/ CreateIncidentUpdate
    \/ UpdateIncidentLoad \/ UpdateIncidentCommit
    \/ AddUpdateLoad \/ AddUpdateCommit
    \/ DeleteIncidentLoad \/ DeleteIncidentCommit
    \/ IncidentTick

IncidentSpec == IncidentInit /\ [][IncidentNext]_vars

-----------------------------------------------------------------------------
(* Properties of calculate_service_uptime_for_period, under Spec *)

\* The call returned for an active service over a period with end > start.
Returned == pc = "done" /\ service.is_active /\ end_time > start_time

\* The largest element of a non-empty set of integers.
Last(S) == CHOOSE x \in S : \A y \in S : y <= x

\* C1: the value returned is a percentage: 0 <= p <= 100, on every branch
\* (inactive, degenerate period, no history, history).
C1_UptimeInRange ==
    pc = "done" => (0 <= result /\ result <= Pct(100))

C1_Witness ==
    /\ Returned
    /\ history # <<>>
    /\ 0 < result
    /\ result < Pct(100)

\* C2: a period with end_time <= start_time yields exactly 100.0, whatever
\* the service row and the history table hold.
C2_DegenerateWindow ==
    (pc = "done" /\ end_time <= start_time) => result = Pct(100)

C2_Witness ==
    /\ pc = "done"
    /\ end_time = start_time
    /\ service.is_active
    /\ service.status = MAJOR_OUTAGE
    /\ Len(history) = MaxEvents
    /\ \A i \in 1..Len(history) : history[i].status # OPERATIONAL
    /\ result = Pct(100)

\* C3: an inactive service yields exactly 100.0 for every period and every
\* history table, tables of outage rows included.
C3_InactiveService ==
    (pc = "done" /\ ~service.is_active) => result = Pct(100)

C3_Witness ==
    /\ pc = "done"
    /\ ~service.is_active
    /\ service.status = MAJOR_OUTAGE
    /\ end_time > start_time
    /\ Len(status_history) = MaxEvents
    /\ \A i \in 1..Len(status_history) :
          /\ status_history[i].status = MAJOR_OUTAGE
          /\ InWindow(status_history[i], start_time, end_time)
    /\ result = Pct(100)

\* C4: active service, no row in the period (end > start), last_status_change
\* <= start_time: exactly 100.0 when the status is operational and exactly
\* 0.0 when it is one of the four others.
C4_StableStatus ==
    (Returned /\ history = <<>> /\ service.last_status_change <= start_time)
      => /\ service.status = OPERATIONAL => result = Pct(100)
         /\ service.status \in {DEGRADED_PERFORMANCE, PARTIAL_OUTAGE,
                                MAJOR_OUTAGE, MAINTENANCE} => result = 0

C4_Witness ==
    /\ Returned
    /\ history = <<>>
    /\ status_history # <<>>
    /\ service.last_status_change < start_time
    /\ service.status = MAINTENANCE
    /\ result = 0

\* The example of C5: period [0, 1000], the change at 400 to major_outage.
C5_Example ==
    UptimeForPeriod([status |-> MAJOR_OUTAGE, last_status_change |-> 400,
                     is_active |-> TRUE], <<>>, 0, 1000) = Pct(40)

\* C5: active service, no row in the period, start_time < last_status_change
\* <= end_time: the operational seconds are (last_status_change - start_time)
\* plus (end_time - last_status_change) only if the status is operational;
\* a 1000 s period with the change at +400 s to major_outage gives 40.0.
C5_ChangeWithinWindow ==
    /\ (Returned /\ history = <<>>
          /\ start_time < service.last_status_change
          /\ service.last_status_change <= end_time)
         => LET seconds ==
                  (service.last_status_change - start_time)
                    + (IF service.status = OPERATIONAL
                         THEN end_time - service.last_status_change ELSE 0)
            IN /\ operational_duration = seconds
               /\ result = Ratio(seconds, end_time - start_time)
    /\ C5_Example

C5_Witness ==
    /\ Returned
    /\ history = <<>>
    /\ start_time < service.last_status_change
    /\ service.last_status_change < end_time
    /\ service.status = MAJOR_OUTAGE
    /\ operational_duration = service.last_status_change - start_time
    /\ 0 < result
    /\ result < Pct(100)

\* C6: active service, no row in the period, last_status_change > end_time:
\* exactly 100.0 whatever the status is.
C6_ChangeAfterWindow ==
    (pc = "done" /\ service.is_active /\ history = <<>>
       /\ service.last_status_change > end_time)
      => result = Pct(100)

C6_Witness ==
    /\ Returned
    /\ history = <<>>
    /\ service.last_status_change > end_time
    /\ service.status = MAJOR_OUTAGE
    /\ result = Pct(100)

\* C7: with rows in the period, the status taken as active from start_time to
\* the first row is the service's status if last_status_change <= start_time
\* and operational otherwise; the first row's previous_status is not read:
\* the value returned is the same whatever that field holds.
C7_StartingStatus ==
    (pc \in {"loop", "done"} /\ service.is_active /\ end_time > start_time
       /\ history # <<>>)
      => /\ current_status =
              IF service.last_status_change <= start_time
                THEN service.status ELSE OPERATIONAL
         /\ pc = "done" =>
              \A p \in ServiceStatus \cup {NoStatus} :
                 UptimeForPeriod(service, [history EXCEPT ![1].previous_status = p],
                                 start_time, end_time) = result

C7_Witness ==
    /\ Returned
    /\ history # <<>>
    /\ history[1].created_at > start_time
    /\ service.last_status_change > start_time
    /\ service.status = MAJOR_OUTAGE
    /\ history[1].previous_status = MAJOR_OUTAGE
    /\ current_status = OPERATIONAL
    /\ result > 0

\* The status active at instant t of the period: the status of the last row
\* at or before t, and before the first row the starting status.
ActiveAt(t) ==
    LET before == {i \in 1..Len(history) : history[i].created_at <= t}
    IN IF before = {}
         THEN IF service.last_status_change <= start_time
                THEN service.status ELSE OPERATIONAL
         ELSE history[Last(before)].status

\* The examples of C8 on period [0, 100]: one row at 60, rows at 30 and 70.
C8_Examples ==
    /\ UptimeForPeriod(
         [status |-> MAJOR_OUTAGE, last_status_change |-> 60, is_active |-> TRUE],
         <<[created_at |-> 60, status |-> MAJOR_OUTAGE,
            previous_status |-> OPERATIONAL]>>, 0, 100) = Pct(60)
    /\ UptimeForPeriod(
         [status |-> OPERATIONAL, last_status_change |-> 70, is_active |-> TRUE],
         <<[created_at |-> 30, status |-> DEGRADED_PERFORMANCE,
            previous_status |-> OPERATIONAL],
           [created_at |-> 70, status |-> OPERATIONAL,
            previous_status |-> DEGRADED_PERFORMANCE]>>, 0, 100) = Pct(60)

\* C8: with rows in the period, the operational seconds are the total length
\* of the intervals [start, e1), [e1, e2), ..., [en, end] whose status is
\* operational, each row's status holding from its created_at to the next
\* row's; period [0,100] with one row at 60 (to major_outage) gives 60.0,
\* rows at 30 (to degraded_performance) and 70 (to operational) give 60.0.
C8_IntervalSum ==
    /\ (Returned /\ history # <<>>)
         => /\ operational_duration =
                 Cardinality({t \in start_time..(end_time - 1) :
                                ActiveAt(t) = OPERATIONAL})
            /\ result = Ratio(operational_duration, end_time - start_time)
    /\ C8_Examples

C8_Witness ==
    /\ Returned
    /\ Len(history) = 2
    /\ start_time < history[1].created_at
    /\ history[1].created_at < history[2].created_at
    /\ history[2].created_at < end_time
    /\ history[1].status = DEGRADED_PERFORMANCE
    /\ history[2].status = OPERATIONAL
    /\ operational_duration
         = (history[1].created_at - start_time) + (end_time - history[2].created_at)

-----------------------------------------------------------------------------
(* Rows of equal created_at, under Spec *)

\* The rows of the period in insertion order: ascending in created_at, rows
\* of equal created_at by id.
InsertionOrder ==
    SelectSeq(status_history, LAMBDA entry : InWindow(entry, start_time, end_time))

\* C19: the call returns what the walk over the period's rows in insertion
\* order gives, in whatever order the query returned rows of equal created_at.
C19_InsertionOrder ==
    Returned => result = UptimeForPeriod(service, InsertionOrder, start_time, end_time)

-----------------------------------------------------------------------------
(* Repeated calls, under Spec *)

\* The values a call on the arguments of this call may return: one for each
\* order in which the query may return the rows.
Results ==
    {UptimeForPeriod(service, h, start_time, end_time) :
       h \in QueryHistory(status_history, start_time, end_time)}

\* C21: a call on the same service row, the same table and the same period
\* returns the value this call returned: the arguments leave one value.
C21_SameResult == pc = "done" => Results = {result}

\* A call writes neither the service row nor the table (nor the period).
C21_ArgumentsKept == [][UNCHANGED args]_vars

-----------------------------------------------------------------------------
(* Properties of calculate_overall_status, under RollupSpec *)

\* The severity order: major_outage > partial_outage > degraded_performance
\* > maintenance > operational.
Severity(st) ==
    CASE st = MAJOR_OUTAGE -> 4
      [] st = PARTIAL_OUTAGE -> 3
      [] st = DEGRADED_PERFORMANCE -> 2
      [] st = MAINTENANCE -> 1
      [] st = OPERATIONAL -> 0

\* The statuses of the active services of the list.
Present == {listed[i].status : i \in {j \in 1..Len(listed) : listed[j].is_active}}

\* C11: with an active service in the list, the value returned is the worst
\* status present among the active services in the severity order.
C11_WorstStatus ==
    (rpc = "done" /\ Present # {})
      => /\ overall_status \in Present
         /\ \A st \in Present : Severity(st) <= Severity(overall_status)

C11_Witness ==
    /\ rpc = "done"
    /\ Present = {MAINTENANCE, DEGRADED_PERFORMANCE, OPERATIONAL}
    /\ overall_status = DEGRADED_PERFORMANCE

\* The permutations of 1..n, for every length n of a list.
ListPermutations ==
    [n \in 0..MaxListed |->
       {q \in [1..n -> 1..n] : \A i, j \in 1..n : i # j => q[i] # q[j]}]

\* The arrangements of the list.
Reorderings ==
    {[i \in 1..Len(listed) |-> listed[p[i]]] : p \in ListPermutations[Len(listed)]}

\* C12: the value returned is the same for every reordering of the list.
C12_OrderInvariant ==
    rpc = "done" => \A other \in Reorderings : OverallStatus(other) = overall_status

C12_Witness ==
    /\ rpc = "done"
    /\ Len(listed) = MaxListed
    /\ \A i \in 1..Len(listed) : listed[i].is_active
    /\ listed[1].status = DEGRADED_PERFORMANCE
    /\ listed[Len(listed)].status = MAJOR_OUTAGE
    /\ overall_status = MAJOR_OUTAGE

\* C13: inactive services are ignored: the value returned is the one for the
\* list without them, whatever their statuses, and an empty list or a list
\* of inactive services only yields operational.
C13_InactiveIgnored ==
    rpc = "done" =>
      /\ Present # {} =>
            /\ overall_status \in Present
            /\ \A st \in Present : Severity(st) <= Severity(overall_status)
      /\ \A i \in 1..Len(listed) :
            ~listed[i].is_active =>
              \A st \in ServiceStatus :
                 OverallStatus([listed EXCEPT ![i].status = st]) = overall_status
      /\ Present = {} => overall_status = "operational"

C13_Witness ==
    /\ rpc = "done"
    /\ Len(listed) = MaxListed
    /\ \A i \in 1..Len(listed) :
          ~listed[i].is_active /\ listed[i].status = MAJOR_OUTAGE
    /\ overall_status = "operational"

-----------------------------------------------------------------------------
(* Properties of get_uptime_metrics, under MetricsSpec *)

\* The request has been answered with a body.
Answered == mpc = "done" /\ status_code = 200

\* C14: a period_type other than "daily" and "hourly" is answered with an
\* error, whatever the organization holds, and no uptime is computed for it.
C14_InvalidPeriodRejected ==
    mpc = "done" /\ period_type \notin {"daily", "hourly"}
      => status_code = 400 /\ service_uptime_data = <<>>

\* The timestamps of a series ascend strictly.
Ascending(points) ==
    \A j \in 1..Len(points)-1 : points[j].timestamp < points[j + 1].timestamp

\* C15: every series of a daily response has 30 points, every series of an
\* hourly response has 24, and the points' timestamps ascend strictly.
C15_SeriesShape ==
    Answered =>
      \A j \in 1..Len(response.services) :
         LET points == response.services[j].data_points
         IN /\ period_type = "daily" => Len(points) = 30
            /\ period_type = "hourly" => Len(points) = 24
            /\ Ascending(points)

\* A daily response, asked off the hour, with the series of a service on
\* whose history the days differ.
C15_Witness ==
    /\ Answered
    /\ period_type = "daily"
    /\ utc = Midnight + HourTicks + 1
    /\ Len(response.services) = 1
    /\ Len(response.services[1].data_points) = 30
    /\ \E i, j \in 1..30 :
          response.services[1].data_points[i].uptime_percentage
            # response.services[1].data_points[j].uptime_percentage

\* The passes of the loop whose query returns the row.
SlicesOf(row) ==
    {i \in 0..periods-1 :
       InWindow(row, PeriodStart(now_utc, i, PeriodOf(period_type)),
                PeriodEnd(now_utc, i, PeriodOf(period_type)))}

\* C16: a row dated from the start of the oldest period up to, and without,
\* the end of the newest is in the slice of exactly one period.
C16_OneSlice ==
    Answered =>
      \A j \in 1..Len(found) :
         LET table == org_history[found[j].id]
         IN \A r \in 1..Len(table) :
               /\ table[r].created_at
                    >= PeriodStart(now_utc, periods - 1, PeriodOf(period_type))
               /\ table[r].created_at < PeriodEnd(now_utc, 0, PeriodOf(period_type))
               => Cardinality(SlicesOf(table[r])) = 1

\* The sum of the reported percentages of a series.
Reported(points) == Sum([j \in 1..Len(points) |-> points[j].uptime_percentage])

\* C17: a service's overall_uptime is within 0.01 of the mean of the
\* percentages its series reports: overall * n and their sum differ by at
\* most 0.01 * n.
C17_OverallNearMean ==
    Answered =>
      \A j \in 1..Len(response.services) :
         LET data == response.services[j]
             n == Len(data.data_points)
             gap == data.overall_uptime * n - Reported(data.data_points)
         IN gap <= Quantum * n /\ -gap <= Quantum * n

\* A series with a percentage between 0 and 100, whose mean the
\* overall_uptime does not equal.
C17_Witness ==
    /\ Answered
    /\ \E j \in 1..Len(response.services) :
          LET data == response.services[j]
              n == Len(data.data_points)
          IN /\ \E i \in 1..n :
                   /\ data.data_points[i].uptime_percentage > 0
                   /\ data.data_points[i].uptime_percentage < Pct(100)
             /\ data.overall_uptime * n # Reported(data.data_points)

-----------------------------------------------------------------------------
(* The daily series against the whole window, under ConsistentSpec *)

\* The operational ticks calculate_service_uptime_for_period counts for the
\* service over the days of the series taken as one period, one for each
\* order in which its query may return the rows.
WholeWindowDurations(id) ==
    LET first == PeriodStart(now_utc, periods - 1, DayTicks)
        last == PeriodEnd(now_utc, 0, DayTicks)
    IN {IF h = <<>> THEN NoHistoryDuration(org[id], first, last)
                    ELSE HistoryDuration(org[id], h, first, last) :
          h \in QueryHistory(org_history[id], first, last)}

\* The percentage of the whole window, cut to 0.01: the ticks are counted in
\* hundredths of a percent of the window, so that the product stays small.
WholeWindowPercent(id) ==
    LET total == periods * DayTicks
    IN {Min((d * Hundred * Hundred) \div total, Hundred * Hundred) * Quantum :
          d \in WholeWindowDurations(id)}

\* No two rows of the service's history carry the same created_at.
DistinctInstants(id) ==
    \A a, b \in 1..Len(org_history[id]) :
       a # b => org_history[id][a].created_at # org_history[id][b].created_at

\* C25: for a service that agrees with its history, the mean of the daily
\* percentages (overall_uptime) is the whole window's percentage, to 0.02
\* (the roundings of the two sides); stated for the histories whose rows
\* carry distinct instants, where the order of the rows is not in question.
C25_MeanIsWholeWindow ==
    (Answered /\ period_type = "daily") =>
      \A j \in {n \in 1..Len(response.services) :
                  DistinctInstants(response.services[n].service_id)} :
         \E whole \in WholeWindowPercent(response.services[j].service_id) :
            LET gap == response.services[j].overall_uptime - whole
            IN gap <= 2 * Quantum /\ -gap <= 2 * Quantum

-----------------------------------------------------------------------------
(* Properties of calculate_uptime_percentage, under FleetSpec *)

\* The instants the call may have taken as "now": the clock from its
\* beginning to its return.
Nows == called_at..clock

\* The values the window reconstruction (UptimeForPeriod over
\* [now - Days, now]) can give service i, one per order the query may return.
Reconstructed(i, now) ==
    {UptimeForPeriod(services[i], h, now - Days, now) :
       h \in QueryHistory(db[i], now - Days, now)}

\* The sums of those values over the active services among the first i.
RECURSIVE ReconstructedSums(_, _)
ReconstructedSums(i, now) ==
    IF i = 0 THEN {0}
    ELSE IF ~services[i].is_active THEN ReconstructedSums(i - 1, now)
    ELSE {t + u : t \in ReconstructedSums(i - 1, now), u \in Reconstructed(i, now)}

\* C9: a service without rows in the trailing window is given what the
\* reconstruction's no-history policy gives it (so an active service that has
\* held a non-operational status since before the window adds 0).
C9_EmptyLogPolicy ==
    fpc = "done" =>
      \A i \in 1..Len(added) :
         (services[i].is_active /\ QuerySince(db[i], called_at - Days) = {<<>>})
           => \E now \in Nows :
                 added[i] = Uptime(NoHistoryDuration(services[i], now - Days, now),
                                   Days)

\* C10: the value returned is the mean, rounded to 2 decimals, of the window
\* reconstruction over [now - Days, now] of the active services; inactive
\* services are neither summed nor counted.
C10_MeanOfReconstruction ==
    (fpc = "done" /\ ServiceCount(services) > 0) =>
      \E now \in Nows :
         uptime_percentage \in
           {Round2(t, ServiceCount(services)) :
              t \in ReconstructedSums(Len(services), now)}

\* What service i adds when cutoff_date and the time after the last row both
\* come from one reading now of the clock, one value per order the query may
\* return.
OneReading(i, now) ==
    {ServiceUptime(h, now - Days, now) : h \in QuerySince(db[i], now - Days)}

\* The sums of those values over the active services among the first i.
RECURSIVE OneReadingSums(_, _)
OneReadingSums(i, now) ==
    IF i = 0 THEN {0}
    ELSE IF ~services[i].is_active THEN OneReadingSums(i - 1, now)
    ELSE {t + u : t \in OneReadingSums(i - 1, now), u \in OneReading(i, now)}

\* C20: the value returned is the value for one instant now of the call,
\* every active service's window being [now - Days, now], however the clock
\* advanced between the call's readings of it.
C20_OneNow ==
    (fpc = "done" /\ ServiceCount(services) > 0) =>
      \E now \in Nows :
         uptime_percentage \in
           {Round2(t, ServiceCount(services)) :
              t \in OneReadingSums(Len(services), now)}

-----------------------------------------------------------------------------
(* Properties of the services API, under ApiSpec *)

\* One sequence begins with the other.
IsPrefix(short, long) ==
    Len(short) <= Len(long) /\ \A i \in 1..Len(short) : long[i] = short[i]

\* C18: a step of create_service, update_service, update_service_status or
\* delete_service leaves every row of every service's history in place and
\* unchanged (timestamp, status, previous_status): each log after the step
\* begins with the log before it.
C18_LogOnlyGrows ==
    [][\A id \in 1..Len(services_table') :
          IsPrefix(LogOf(history_table, id), LogOf(history_table', id))]_vars

\* A service with a status change in its history has been deleted.
C18_Witness ==
    \E id \in 1..Len(services_table) :
       /\ ~services_table[id].is_active
       /\ Len(LogOf(history_table, id)) >= 2
       /\ \E w \in Workers :
             /\ session[w].op = "delete"
             /\ session[w].pc = "done"
             /\ session[w].service_id = id
             /\ session[w].status_code = 200

\* C22: in every service's log each row but the first carries as
\* previous_status the status of the row before it.
C22_ChainedLog ==
    \A id \in 1..Len(services_table) :
       LET log == LogOf(history_table, id)
       IN \A i \in 2..Len(log) : log[i].previous_status = log[i - 1].status

\* The worker's request of one of these operations ends with status 200 in
\* this step.
Completes(w, ops) ==
    /\ session[w].pc # "done"
    /\ session'[w].pc = "done"
    /\ session'[w].status_code = 200
    /\ session'[w].op \in ops

\* C23: when a create_service, update_service or update_service_status call
\* completes, the service has rows of history and the status of the latest
\* is the status of the service.
C23_LatestIsCurrent ==
    [][\A w \in Workers :
          Completes(w, {"create", "update", "status"}) =>
            LET id == session'[w].service_id
                log == LogOf(history_table', id)
            IN /\ log # <<>>
               /\ log[Len(log)].status = services_table'[id].status]_vars

\* C24: when a call that changes a status completes, last_status_change of
\* the service is created_at of the row the call appended.
C24_ChangeStampedOnce ==
    [][\A w \in Workers :
          (Completes(w, {"update", "status"})
             /\ Len(history_table') > Len(history_table)) =>
            services_table'[session'[w].service_id].last_status_change
              = history_table'[Len(history_table')].created_at]_vars

\* The step commits worker w's PUT.
CommitsPut(w) ==
    /\ session[w].op = "update" /\ session[w].pc = "loaded"
    /\ session'[w].pc = "done"

\* A PUT that commits: with a status absent or equal to the one it loaded,
\* the history and last_status_change stay; with another status, one row is
\* appended, of the new status, with the loaded status as previous_status.
C26_CommittedPut ==
    [][\A w \in Workers :
          CommitsPut(w) =>
            LET req == session[w]
                id == req.service_id
            IN IF StatusChanged(req.data, req.loaded.status)
                 THEN /\ Len(history_table') = Len(history_table) + 1
                      /\ SubSeq(history_table', 1, Len(history_table)) = history_table
                      /\ history_table'[Len(history_table')].service_id = id
                      /\ history_table'[Len(history_table')].status = req.data.status
                      /\ history_table'[Len(history_table')].previous_status
                           = req.loaded.status
                 ELSE /\ history_table' = history_table
                      /\ services_table'[id].last_status_change
                           = services_table[id].last_status_change]_vars

\* C26: update_service with a status absent or equal to the current one
\* leaves the history and last_status_change; with a different status it
\* appends one row, of the new status and with the old one as previous_status:
\* every PUT on an active service commits, and commits so.
C26_PutAppendsOnce ==
    [][\A w \in Workers :
          /\ (session'[w].op = "update" /\ session'[w].pc = "done")
                => session'[w].status_code \in {200, 404}
          /\ CommitsPut(w) =>
               LET req == session[w]
               IN IF StatusChanged(req.data, req.loaded.status)
                    THEN /\ Len(history_table') = Len(history_table) + 1
                         /\ history_table'[Len(history_table')].status = req.data.status
                         /\ history_table'[Len(history_table')].previous_status
                              = req.loaded.status
                    ELSE history_table' = history_table]_vars

\* The services delete_service has marked.
Deleted == {id \in 1..Len(services_table) : ~services_table[id].is_active}

\* The step begins worker w's request on service id.
Begins(w, id) ==
    /\ calls' = calls + 1
    /\ IsFree(w)
    /\ \A v \in Workers : v # w => session'[v] = session[v]
    /\ session'[w].service_id = id

\* A request that begins on a deleted service ends with 404 and writes
\* nothing, and no step makes a deleted service active.
C27_LaterCalls ==
    [][\A id \in Deleted :
          /\ ~services_table'[id].is_active
          /\ \A w \in Workers :
                Begins(w, id) =>
                  /\ session'[w].pc = "done"
                  /\ session'[w].status_code = 404
                  /\ services_table' = services_table
                  /\ history_table' = history_table]_vars

\* C27: once delete_service has set is_active to false, the calls on the
\* service return 404 and change nothing: the service stays as it is,
\* inactive, and its history gets no further row.
C27_DeleteAbsorbs ==
    [][\A id \in Deleted :
          /\ services_table'[id] = services_table[id]
          /\ LogOf(history_table', id) = LogOf(history_table, id)
          /\ \A w \in Workers :
                Begins(w, id) =>
                  session'[w].pc = "done" /\ session'[w].status_code = 404]_vars

\* C28: no two active services of the organization have the same name.
C28_ActiveNamesDiffer ==
    \A a, b \in 1..Len(services_table) :
       (a # b /\ services_table[a].is_active /\ services_table[b].is_active)
          => services_table[a].name # services_table[b].name

-----------------------------------------------------------------------------
(* Properties of the incidents API, under IncidentSpec *)

\* C29: an incident has resolved_at set if and only if its status is RESOLVED.
C29_ResolvedAtIffResolved ==
    \A i \in incidents : (i.resolved_at # Null) <=> (i.status = RESOLVED)

\* An update_incident whose body sets no status leaves status and resolved_at
\* of the incident as they are.
C29_NoStatusNoChange ==
    [][\A w \in Workers :
          (/\ handling[w].op = "update" /\ handling[w].pc = "loaded"
           /\ handling'[w].pc = "done"
           /\ "status" \notin DOMAIN handling[w].data
           /\ Found(incidents, handling[w].incident_id)) =>
            LET id == handling[w].incident_id
            IN /\ Found(incidents', id)
               /\ TheIncident(incidents', id).status = TheIncident(incidents, id).status
               /\ TheIncident(incidents', id).resolved_at
                    = TheIncident(incidents, id).resolved_at]_vars

\* The step begins worker w's delete_incident of incident id.
BeginsDelete(w, id) ==
    /\ requests_begun' = requests_begun + 1
    /\ IsWaiting(w)
    /\ \A v \in Workers : v # w => handling'[v] = handling[v]
    /\ handling'[w].op = "delete"
    /\ handling'[w].incident_id = id

\* The step commits worker w's delete_incident.
CommitsDelete(w) ==
    /\ handling[w].op = "delete" /\ handling[w].pc = "loaded"
    /\ handling'[w].pc = "done"

\* The incident is in none of the tables.
Removed(id) ==
    /\ ~Found(incidents', id)
    /\ \A n \in 1..Len(incident_updates') : incident_updates'[n].incident_id # id
    /\ LinkedTo(incident_services', id) = {}

\* A delete_incident on a RESOLVED incident ends with 400 and writes nothing;
\* one whose incident and services are at the commit as it loaded them removes
\* the incident with its updates and its services.
C30_AsLoaded ==
    [][\A w \in Workers :
          /\ \A id \in IncidentIds :
                (/\ BeginsDelete(w, id)
                 /\ Found(incidents, id)
                 /\ TheIncident(incidents, id).status = RESOLVED) =>
                  /\ handling'[w].pc = "done"
                  /\ handling'[w].status_code = 400
                  /\ UNCHANGED <<incidents, incident_updates, incident_services>>
          /\ (/\ CommitsDelete(w)
              /\ Found(incidents, handling[w].incident_id)
              /\ TheIncident(incidents, handling[w].incident_id) = handling[w].loaded
              /\ LinkedTo(incident_services, handling[w].incident_id)
                   = handling[w].linked) =>
               /\ handling[w].loaded.status # RESOLVED
               /\ handling'[w].status_code = 200
               /\ Removed(handling[w].incident_id)]_vars

\* C30: delete_incident deletes an incident only if it is not resolved: on a
\* RESOLVED incident it ends with 400 and leaves the incident, its updates
\* and its services; on any other it removes the incident with all its
\* updates and services.
C30_DeleteUnlessResolved ==
    [][\A w \in Workers :
          /\ \A id \in IncidentIds :
                (/\ BeginsDelete(w, id)
                 /\ Found(incidents, id)
                 /\ TheIncident(incidents, id).status = RESOLVED) =>
                  /\ handling'[w].pc = "done"
                  /\ handling'[w].status_code = 400
                  /\ UNCHANGED <<incidents, incident_updates, incident_services>>
          /\ (CommitsDelete(w) /\ Found(incidents, handling[w].incident_id)) =>
               IF TheIncident(incidents, handling[w].incident_id).status = RESOLVED
                 THEN UNCHANGED <<incidents, incident_updates, incident_services>>
                 ELSE Removed(handling[w].incident_id)]_vars

====
